---- MODULE Spec2Model ----
(***************************************************************************)
(* bifsi: big fixed size unsigned integers (bui<SIZE_IN_BITS>), a          *)
(* magnitude of SIZE_IN_ELS limbs of type el_t, least significant first,   *)
(* with arithmetic and comparison against native operands.                 *)
(*                                                                         *)
(* The limb type el_t is modelled with EL_SIZE_IN_BITS bits instead of 32, *)
(* the double limb tw_t with twice that.  Native operand types are         *)
(* records [bits, signed]; `int` has the width of el_t, as in the source   *)
(* (el_t = uint32_t).  All arithmetic is done at the width of the C++ type *)
(* that holds it.                                                          *)
(***************************************************************************)
EXTENDS Integers, Sequences, FiniteSets, TLC

VARIABLES
    NDEBUG,       \* the build: TRUE when assert() is compiled out
    el,           \* bui::el, the limbs of the magnitude, index 0 the lowest
    before,       \* the limbs before the operation
    other,        \* the limbs of a second magnitude the same caller holds
    op,           \* the operation just applied
    b_type,       \* the native type of the operand
    b_val,        \* the operand
    ret,          \* what the operation returned
    cmp,          \* the outcomes of the six comparison operators on (el, b_val)
    path,         \* the control-flow steps the operation took on el
    path_other,   \* the control-flow steps the same operation took on other
    status,       \* "ok", "assert_failed" when an assert() aborted the call, or
                  \* "overflow" when a scratch register was too narrow for a value
    accessed,     \* the indices into el[] the operation read or wrote
    r_actual,     \* test.cpp: remainder returned by actual % op_val
    r_expected,   \* test.cpp: remainder of the reference
    expected,     \* test.cpp: the uint128_t reference value
    actual_str,   \* test.cpp: to_string(actual)
    expected_str, \* test.cpp: to_string(expected)
    test_i,       \* test.cpp: the loop counter i of main
    pc            \* test.cpp: "running", "failed" (return 1) or "completed"

vars == <<NDEBUG, el, before, other, op, b_type, b_val, ret, cmp, path, path_other, status,
          accessed, r_actual, r_expected, expected, actual_str, expected_str, test_i, pc>>

\* ------------------------------------------------------------------ bounds

\* width of a limb (el_t) in bits; at least 4 so that the literal 10 of the
\* decimal conversion is an el_t value
EL_SIZE_IN_BITS == 4

\* largest number of limbs of a magnitude
MaxEls == 3

\* number of operations the test driver applies (TEST_COUNT, scaled)
MaxSteps == 3

\* ------------------------------------------------------------------ words

RECURSIVE Pow2(_)
Pow2(k) == IF k <= 0 THEN 1 ELSE 2 * Pow2(k - 1)

TW_SIZE_IN_BITS == 2 * EL_SIZE_IN_BITS

\* number of values of an el_t, of a tw_t
BASE == Pow2(EL_SIZE_IN_BITS)

TW_BASE == Pow2(TW_SIZE_IN_BITS)

\* width of int: that of el_t (uint32_t)
INT_BITS == EL_SIZE_IN_BITS

\* width of the native types narrower than a limb (uint16_t against uint32_t)
NARROW_BITS == EL_SIZE_IN_BITS \div 2

Min(x, y) == IF x < y THEN x ELSE y

\* x | y on non-negative words
RECURSIVE BitOr(_, _)
BitOr(x, y) ==
    IF x = 0 THEN y
    ELSE IF y = 0 THEN x
    ELSE (IF (x % 2) + (y % 2) > 0 THEN 1 ELSE 0) + 2 * BitOr(x \div 2, y \div 2)

\* a C++ bool used as an integer
B2I(c) == IF c THEN 1 ELSE 0

\* ------------------------------------------------------------------ native types

UnsignedT(bits) == [bits |-> bits, signed |-> FALSE]

SignedT(bits) == [bits |-> bits, signed |-> TRUE]

\* std::make_unsigned_t<INT_T>
make_unsigned_t(t) == UnsignedT(t.bits)

\* static_cast<UINT_T>(v): the value modulo 2^bits
CastUnsigned(t, v) == v % Pow2(t.bits)

\* conversion of a bit pattern to the signed type t (two's complement)
CastSigned(t, v) ==
    LET u == v % Pow2(t.bits)
    IN IF u >= Pow2(t.bits - 1) THEN u - Pow2(t.bits) ELSE u

MinValue(t) == IF t.signed THEN 0 - Pow2(t.bits - 1) ELSE 0

\* ------------------------------------------------------------------ magnitude

\* bui::SIZE_IN_ELS of the magnitude holding the limbs el
SIZE_IN_ELS(m) == Cardinality(DOMAIN m)

\* the number a limb array represents: sum of el[i] * BASE^i
RECURSIVE ValueFrom(_, _)
ValueFrom(m, i) ==
    IF i >= SIZE_IN_ELS(m) THEN 0 ELSE m[i] + BASE * ValueFrom(m, i + 1)

Value(m) == ValueFrom(m, 0)

\* 2^N for a magnitude of n limbs
Modulus(n) == Pow2(n * EL_SIZE_IN_BITS)

\* bui::set_zero_starting_at_el<START_EL_IDX>
set_zero_starting_at_el(m, START_EL_IDX) ==
    [i \in DOMAIN m |-> IF i >= START_EL_IDX THEN 0 ELSE m[i]]

\* bui::set_zero
set_zero(m) == set_zero_starting_at_el(m, 0)

\* bui::is_zero_starting_at_el<START_EL_IDX>: result &= (el[i] == 0)
RECURSIVE is_zero_starting_at_el(_, _)
is_zero_starting_at_el(m, i) ==
    IF i >= SIZE_IN_ELS(m) THEN TRUE
    ELSE (m[i] = 0) /\ is_zero_starting_at_el(m, i + 1)

\* bui::is_nonzero_starting_at_el<START_EL_IDX>: result |= (el[i] != 0)
RECURSIVE is_nonzero_starting_at_el(_, _)
is_nonzero_starting_at_el(m, i) ==
    IF i >= SIZE_IN_ELS(m) THEN FALSE
    ELSE (m[i] # 0) \/ is_nonzero_starting_at_el(m, i + 1)

\* bui::to_el_t
to_el_t(m) == m[0]

\* bui::as_uint<UINT_T>: the number of limbs the branch taken combines
as_uint_els(n, t) ==
    IF 1 * EL_SIZE_IN_BITS >= t.bits \/ n = 1 THEN 1
    ELSE IF 2 * EL_SIZE_IN_BITS >= t.bits \/ n = 2 THEN 2
    ELSE IF 4 * EL_SIZE_IN_BITS >= t.bits \/ n <= 4 THEN (IF n = 3 THEN 3 ELSE 4)
    ELSE IF n = 5 THEN 5 ELSE IF n = 6 THEN 6 ELSE IF n = 7 THEN 7 ELSE 8

\* ((UINT_T) v) << s for a limb v: the bits of v that stay below the width of
\* UINT_T, moved up by s (v * 2^s mod 2^bits, computed without forming 2^bits)
ShiftLeftIn(t, v, s) ==
    IF v = 0 \/ s >= t.bits THEN 0
    ELSE (v % Pow2(Min(t.bits - s, EL_SIZE_IN_BITS))) * Pow2(s)

\* value >> s (value / 2^s, computed without forming 2^s)
RECURSIVE ShiftRight(_, _)
ShiftRight(value, s) ==
    IF s <= 0 \/ value = 0 THEN value ELSE ShiftRight(value \div 2, s - 1)

\* el[0] | ((UINT_T) el[1] << 1 * EL_SIZE_IN_BITS) | ..., each shift done in UINT_T
RECURSIVE as_uint_or(_, _, _, _)
as_uint_or(m, t, i, k) ==
    IF i >= k THEN 0
    ELSE BitOr(ShiftLeftIn(t, m[i], i * EL_SIZE_IN_BITS),
               as_uint_or(m, t, i + 1, k))

\* bui::as_uint<UINT_T>: the result converted to the return type UINT_T, which
\* is a signed type when a caller hands one in
as_uint(m, t) ==
    LET raw == as_uint_or(m, t, 0, as_uint_els(SIZE_IN_ELS(m), t))
    IN IF t.signed THEN CastSigned(t, raw) ELSE raw

\* a set_uint without the branch for operands of more than four limbs
set_uint_els_four_limbs(n, t) ==
    IF EL_SIZE_IN_BITS >= t.bits \/ n = 1 THEN 1
    ELSE IF 2 * EL_SIZE_IN_BITS >= t.bits \/ n = 2 THEN 2
    ELSE IF n = 3 THEN 3 ELSE 4

\* bui::set_uint<UINT_T>: the number of limbs the branch taken assigns from value
set_uint_els(n, t) ==
    IF EL_SIZE_IN_BITS >= t.bits \/ n = 1 THEN 1
    ELSE IF 2 * EL_SIZE_IN_BITS >= t.bits \/ n = 2 THEN 2
    ELSE IF 4 * EL_SIZE_IN_BITS >= t.bits \/ n <= 4 THEN (IF n = 3 THEN 3 ELSE 4)
    ELSE IF n = 5 THEN 5 ELSE IF n = 6 THEN 6 ELSE IF n = 7 THEN 7 ELSE 8

\* bui::set_uint<UINT_T>: el[i] = value >> i * EL_SIZE_IN_BITS for the limbs of
\* the branch, then set_zero_starting_at_el
set_uint(n, t, value) ==
    LET k == set_uint_els(n, t)
    IN [i \in 0 .. (n - 1) |->
           IF i < k THEN ShiftRight(value, i * EL_SIZE_IN_BITS) % BASE ELSE 0]

\* bui::bui(const INT_T &value)
bui(n, t, value) ==
    IF ~t.signed THEN set_uint(n, t, value)
    ELSE set_uint(n, make_unsigned_t(t), CastUnsigned(t, value))

\* bui::as<INT_T>
as(m, t) ==
    IF ~t.signed THEN as_uint(m, t) ELSE as_uint(m, make_unsigned_t(t))

\* ------------------------------------------------------------------ add, subtract

\* the UINT_T the routine works on after `return operator_..._uint((el_t) b)`
WidenToEl(t) == IF t.bits < EL_SIZE_IN_BITS THEN UnsignedT(EL_SIZE_IN_BITS) ELSE t

\* std::min(sizeof(UINT_T) / sizeof(el_t), SIZE_IN_ELS)
B_EL_COUNT(m, t) == Min(WidenToEl(t).bits \div EL_SIZE_IN_BITS, SIZE_IN_ELS(m))

\* (el_t) (b >> i * EL_SIZE_IN_BITS)
b_i(b, i) == (b \div Pow2(i * EL_SIZE_IN_BITS)) % BASE

\* operator_pluseq_uint, first loop: for (i = 0; i < B_EL_COUNT; i++)
RECURSIVE pluseq_operand_loop(_, _, _, _, _)
pluseq_operand_loop(m, carry, i, b, cnt) ==
    IF i >= cnt THEN [el |-> m, carry |-> carry]
    ELSE LET e1 == (m[i] + carry) % BASE
             c1 == B2I(e1 < carry)
             e2 == (e1 + b_i(b, i)) % BASE
             c2 == BitOr(c1, B2I(e2 < b_i(b, i)))
         IN pluseq_operand_loop([m EXCEPT ![i] = e2], c2, i + 1, b, cnt)

\* a second loop that adds the carry to its first limb and stops there
pluseq_carry_loop_one_limb(m, carry, i) ==
    IF i >= SIZE_IN_ELS(m) THEN m ELSE [m EXCEPT ![i] = (m[i] + carry) % BASE]

\* operator_pluseq_uint, second loop: for (i = B_EL_COUNT; i < SIZE_IN_ELS; i++)
RECURSIVE pluseq_carry_loop(_, _, _)
pluseq_carry_loop(m, carry, i) ==
    IF i >= SIZE_IN_ELS(m) THEN m
    ELSE LET e1 == (m[i] + carry) % BASE
         IN pluseq_carry_loop([m EXCEPT ![i] = e1], B2I(e1 < carry), i + 1)

\* bui::operator_pluseq_uint<UINT_T>
operator_pluseq_uint(m, t, b) ==
    LET cnt == B_EL_COUNT(m, t)
        r == pluseq_operand_loop(m, 0, 0, b, cnt)
    IN pluseq_carry_loop(r.el, r.carry, cnt)

\* operator_minuseq_uint, first loop
RECURSIVE minuseq_operand_loop(_, _, _, _, _)
minuseq_operand_loop(m, carry, i, b, cnt) ==
    IF i >= cnt THEN [el |-> m, carry |-> carry]
    ELSE LET e1 == (m[i] - carry) % BASE
             c1 == B2I(e1 > m[i])
             e2 == (e1 - b_i(b, i)) % BASE
             c2 == BitOr(c1, B2I(e2 > e1))
         IN minuseq_operand_loop([m EXCEPT ![i] = e2], c2, i + 1, b, cnt)

\* a second loop that drops the borrow
minuseq_carry_loop_no_borrow(m, carry, i) == m

\* operator_minuseq_uint, second loop
RECURSIVE minuseq_carry_loop(_, _, _)
minuseq_carry_loop(m, carry, i) ==
    IF i >= SIZE_IN_ELS(m) THEN m
    ELSE LET e1 == (m[i] - carry) % BASE
         IN minuseq_carry_loop([m EXCEPT ![i] = e1], B2I(e1 > m[i]), i + 1)

\* bui::operator_minuseq_uint<UINT_T>
operator_minuseq_uint(m, t, b) ==
    LET cnt == B_EL_COUNT(m, t)
        r == minuseq_operand_loop(m, 0, 0, b, cnt)
    IN minuseq_carry_loop(r.el, r.carry, cnt)

\* ------------------------------------------------------------------ multiply

\* a multiplication that drops the upper half of every limb product
muleq_el_loop_no_carry(m, tw, i, b) ==
    [k \in DOMAIN m |-> IF k >= i THEN (m[k] * b) % BASE ELSE m[k]]

\* operator_muleq_uint, sizeof(UINT_T) == sizeof(el_t):
\* tw += ((tw_t) el[i]) * b; el[i] = (el_t) tw; tw >>= EL_SIZE_IN_BITS
RECURSIVE muleq_el_loop(_, _, _, _)
muleq_el_loop(m, tw, i, b) ==
    IF i >= SIZE_IN_ELS(m) THEN m
    ELSE LET tw1 == (tw + m[i] * b) % TW_BASE
         IN muleq_el_loop([m EXCEPT ![i] = tw1 % BASE], tw1 \div BASE, i + 1, b)

\* operator_muleq_uint, sizeof(UINT_T) > sizeof(el_t): tw carries the products
\* of b_0, ui (of type UINT_T) those of b_upper with the limb just stored
RECURSIVE muleq_wide_loop(_, _, _, _, _, _, _)
muleq_wide_loop(m, tw, ui, i, b_0, b_upper, bits) ==
    IF i >= SIZE_IN_ELS(m) THEN m
    ELSE LET tw1 == (tw + b_0 * m[i]) % TW_BASE
             el1 == [m EXCEPT ![i] = tw1 % BASE]
             tw2 == tw1 \div BASE
             ui1 == (ui + b_upper * el1[i]) % Pow2(bits)
             tw3 == (tw2 + (ui1 % BASE)) % TW_BASE
         IN muleq_wide_loop(el1, tw3, ui1 \div BASE, i + 1, b_0, b_upper, bits)

\* bui::operator_muleq_uint<UINT_T>
operator_muleq_uint(m, t, b) ==
    LET u == WidenToEl(t)
    IN IF u.bits = EL_SIZE_IN_BITS
       THEN muleq_el_loop(m, 0, 0, b)
       ELSE muleq_wide_loop(m, 0, 0, 0, b % BASE, b \div BASE, u.bits)

\* ------------------------------------------------------------------ divide, modulo

\* a division that does not reduce the remainder register (tw %= b left out)
RECURSIVE diveq_loop_no_mod(_, _, _, _)
diveq_loop_no_mod(m, tw, i, b) ==
    IF i < 0 THEN [el |-> m, ret |-> tw % BASE]
    ELSE LET tw1 == BitOr((tw * BASE) % TW_BASE, m[i])
         IN diveq_loop_no_mod([m EXCEPT ![i] = (tw1 \div b) % BASE], tw1, i - 1, b)

\* bui::operator/=(const el_t &b), its loop from the top limb down:
\* tw <<= EL_SIZE_IN_BITS; tw |= el[i]; el[i] = (el_t) (tw / b); tw %= b
RECURSIVE diveq_loop(_, _, _, _)
diveq_loop(m, tw, i, b) ==
    IF i < 0 THEN [el |-> m, ret |-> tw % BASE]
    ELSE LET tw1 == BitOr((tw * BASE) % TW_BASE, m[i])
         IN diveq_loop([m EXCEPT ![i] = (tw1 \div b) % BASE], tw1 % b, i - 1, b)

\* bui::operator/=(const el_t &b): the limbs left and the el_t returned
operator_diveq(m, b) == diveq_loop(m, 0, SIZE_IN_ELS(m) - 1, b)

\* a modulo that looks at the lowest limb alone
mod_loop_low_limb(m, tw, i, b) == m[0] % b

\* bui::operator%(const el_t &b), its loop: tw <<= ...; tw |= el[i]; tw %= b
RECURSIVE mod_loop(_, _, _, _)
mod_loop(m, tw, i, b) ==
    IF i < 0 THEN tw % BASE
    ELSE mod_loop(m, BitOr((tw * BASE) % TW_BASE, m[i]) % b, i - 1, b)

\* bui::operator%(const el_t &b) const
operator_mod(m, b) == mod_loop(m, 0, SIZE_IN_ELS(m) - 1, b)

\* ------------------------------------------------------------------ assertions

\* assert(c): passes when c holds or when the build compiled assert() out
AssertPasses(c) == NDEBUG \/ c

\* assert_unsigned_int_type<UINT_T>: assert(std::is_unsigned_v<UINT_T>)
assert_unsigned_int_type(t) == AssertPasses(~t.signed)

\* the outcome of a call returning bool: the assert()s it ran, then its value
Outcome(asserts_pass, val) ==
    IF ~asserts_pass THEN "assert_failed" ELSE IF val THEN "true" ELSE "false"

\* ------------------------------------------------------------------ comparison

\* the operand as the comparison with to_el_t() sees it: converted to el_t by
\* the usual arithmetic conversions (el_t has the rank of int)
ConvToEl(b) == b % BASE

\* sizeof(UINT_T) / sizeof(el_t)
ElsOf(t) == t.bits \div EL_SIZE_IN_BITS

\* bui::operator_neq_uint<UINT_T>
operator_neq_uint(a, t, b) ==
    IF EL_SIZE_IN_BITS >= t.bits
    THEN (to_el_t(a) # ConvToEl(b)) \/ is_nonzero_starting_at_el(a, 1)
    ELSE (as_uint(a, t) # b) \/ is_nonzero_starting_at_el(a, ElsOf(t))

\* bui::operator_eq_uint<UINT_T>
operator_eq_uint(a, t, b) ==
    IF EL_SIZE_IN_BITS >= t.bits
    THEN (to_el_t(a) = ConvToEl(b)) /\ is_zero_starting_at_el(a, 1)
    ELSE (as_uint(a, t) = b) /\ is_zero_starting_at_el(a, ElsOf(t))

\* bui::operator_lt_uint<UINT_T>
operator_lt_uint(a, t, b) ==
    IF EL_SIZE_IN_BITS >= t.bits
    THEN (to_el_t(a) < ConvToEl(b)) /\ is_zero_starting_at_el(a, 1)
    ELSE (as_uint(a, t) < b) /\ is_zero_starting_at_el(a, ElsOf(t))

\* bui::operator_gt_uint<UINT_T>
operator_gt_uint(a, t, b) ==
    IF EL_SIZE_IN_BITS >= t.bits
    THEN (to_el_t(a) > ConvToEl(b)) \/ is_nonzero_starting_at_el(a, 1)
    ELSE (as_uint(a, t) > b) \/ is_nonzero_starting_at_el(a, ElsOf(t))

\* bui::operator_leq_uint<UINT_T>
operator_leq_uint(a, t, b) ==
    IF EL_SIZE_IN_BITS >= t.bits
    THEN (to_el_t(a) <= ConvToEl(b)) /\ is_zero_starting_at_el(a, 1)
    ELSE (as_uint(a, t) <= b) /\ is_zero_starting_at_el(a, ElsOf(t))

\* bui::operator_geq_uint<UINT_T>
operator_geq_uint(a, t, b) ==
    IF EL_SIZE_IN_BITS >= t.bits
    THEN (to_el_t(a) >= ConvToEl(b)) \/ is_nonzero_starting_at_el(a, 1)
    ELSE (as_uint(a, t) >= b) \/ is_nonzero_starting_at_el(a, ElsOf(t))

\* bui::operator!=(const INT_T &b): both branches cast to the unsigned type
operator_neq(a, t, b) ==
    IF ~t.signed
    THEN Outcome(assert_unsigned_int_type(make_unsigned_t(t)),
                 operator_neq_uint(a, make_unsigned_t(t), CastUnsigned(t, b)))
    ELSE Outcome(assert_unsigned_int_type(make_unsigned_t(t)),
                 (b < 0) \/ operator_neq_uint(a, make_unsigned_t(t), CastUnsigned(t, b)))

\* bui::operator==(const INT_T &b)
operator_eq(a, t, b) ==
    IF ~t.signed
    THEN Outcome(assert_unsigned_int_type(t), operator_eq_uint(a, t, b))
    ELSE Outcome(assert_unsigned_int_type(make_unsigned_t(t)),
                 (b >= 0) /\ operator_eq_uint(a, make_unsigned_t(t), CastUnsigned(t, b)))

\* bui::operator>(const INT_T &b): the signed branch hands b, of type INT_T, on
operator_gt(a, t, b) ==
    IF ~t.signed
    THEN Outcome(assert_unsigned_int_type(t), operator_gt_uint(a, t, b))
    ELSE Outcome(assert_unsigned_int_type(t), (b < 0) \/ operator_gt_uint(a, t, b))

\* bui::operator<(const INT_T &b)
operator_lt(a, t, b) ==
    IF ~t.signed
    THEN Outcome(assert_unsigned_int_type(t), operator_lt_uint(a, t, b))
    ELSE Outcome(assert_unsigned_int_type(t), (b >= 0) /\ operator_lt_uint(a, t, b))

\* bui::operator>=(const INT_T &b)
operator_geq(a, t, b) ==
    IF ~t.signed
    THEN Outcome(assert_unsigned_int_type(t), operator_geq_uint(a, t, b))
    ELSE Outcome(assert_unsigned_int_type(t), (b < 0) \/ operator_geq_uint(a, t, b))

\* bui::operator<=(const INT_T &b)
operator_leq(a, t, b) ==
    IF ~t.signed
    THEN Outcome(assert_unsigned_int_type(t), operator_leq_uint(a, t, b))
    ELSE Outcome(assert_unsigned_int_type(t), (b >= 0) /\ operator_leq_uint(a, t, b))

\* ------------------------------------------------------------------ operators taking INT_T

\* the values static_cast<make_unsigned_t<INT_T>>(-b) can have for b < 0: -b is
\* computed after integral promotion; for a type at least as wide as int the
\* negation of the minimum value is a signed overflow, any value of the sampled
\* operand range then
NegatedOperand(t, b, any) ==
    IF t.bits >= INT_BITS /\ b = MinValue(t) THEN any
    ELSE {CastUnsigned(t, 0 - b)}

\* bui::operator+=(const INT_T &b): the set of magnitudes it can leave
operator_pluseq(a, t, b, any) ==
    IF ~t.signed THEN {operator_pluseq_uint(a, t, b)}
    ELSE IF b >= 0
    THEN {operator_pluseq_uint(a, make_unsigned_t(t), CastUnsigned(t, b))}
    ELSE {operator_minuseq_uint(a, make_unsigned_t(t), bu) :
             bu \in NegatedOperand(t, b, any)}

\* an operator-= whose negative branch adds the bit pattern of b, not -b
operator_minuseq_no_negate(a, t, b, any) ==
    IF ~t.signed THEN {operator_minuseq_uint(a, t, b)}
    ELSE IF b >= 0
    THEN {operator_minuseq_uint(a, make_unsigned_t(t), CastUnsigned(t, b))}
    ELSE {operator_pluseq_uint(a, make_unsigned_t(t), CastUnsigned(t, b))}

\* bui::operator-=(const INT_T &b): the set of magnitudes it can leave
operator_minuseq(a, t, b, any) ==
    IF ~t.signed THEN {operator_minuseq_uint(a, t, b)}
    ELSE IF b >= 0
    THEN {operator_minuseq_uint(a, make_unsigned_t(t), CastUnsigned(t, b))}
    ELSE {operator_pluseq_uint(a, make_unsigned_t(t), bu) :
             bu \in NegatedOperand(t, b, any)}

\* an operator*= whose negative branch multiplies by -b, as += and -= do
operator_muleq_by_magnitude(a, t, b) ==
    IF ~t.signed THEN [el |-> operator_muleq_uint(a, t, b), status |-> "ok"]
    ELSE [el |-> operator_muleq_uint(a, make_unsigned_t(t),
                                     CastUnsigned(t, IF b >= 0 THEN b ELSE 0 - b)),
          status |-> "ok"]

\* bui::operator*=(const INT_T &b): the limbs left and whether assert(b >= 0) held
operator_muleq(a, t, b) ==
    IF ~t.signed THEN [el |-> operator_muleq_uint(a, t, b), status |-> "ok"]
    ELSE IF b >= 0
    THEN [el |-> operator_muleq_uint(a, make_unsigned_t(t), CastUnsigned(t, b)),
          status |-> "ok"]
    ELSE [el |-> a,
          status |-> IF AssertPasses(b >= 0) THEN "ok" ELSE "assert_failed"]

\* ------------------------------------------------------------------ decimal strings

\* '0' + (char) d
DigitChar(d) == <<"0", "1", "2", "3", "4", "5", "6", "7", "8", "9">>[d + 1]

\* std::reverse
RECURSIVE Reverse(_)
Reverse(s) == IF s = <<>> THEN <<>> ELSE Append(Reverse(Tail(s)), Head(s))

\* uint_to_string<bui<N>>, its do-while loop: result[i] = '0' + (char) (tmp % 10);
\* tmp /= 10; i++; while (tmp != 0)
RECURSIVE uint_to_string_loop(_, _)
uint_to_string_loop(tmp, result) ==
    LET d == operator_mod(tmp, 10)
        q == operator_diveq(tmp, 10).el
        r == Append(result, DigitChar(d))
    IN IF operator_neq(q, SignedT(INT_BITS), 0) = "true"
       THEN uint_to_string_loop(q, r)
       ELSE r

\* uint_to_string<bui<N>> (bui::str, bifsi::to_string)
uint_to_string(x) == Reverse(uint_to_string_loop(x, <<>>))

\* test.cpp to_string(uint128_t), its loop: while (x != 0)
RECURSIVE to_string_loop(_, _)
to_string_loop(x, result) ==
    IF x = 0 THEN result
    ELSE to_string_loop(x \div 10, Append(result, DigitChar(x % 10)))

\* test.cpp to_string(uint128_t)
to_string(x) ==
    LET r == to_string_loop(x, <<>>)
    IN IF Len(r) = 0 THEN <<"0">> ELSE Reverse(r)

\* ------------------------------------------------------------------ inputs

\* limb values the magnitudes and operands are built from: zero, one, a small
\* odd value, the top bit alone, all bits set
LimbVals == {0, 1, 3, BASE \div 2, BASE - 1}

\* the magnitudes of n limbs
Magnitudes(n) == [0 .. (n - 1) -> LimbVals]

AllMagnitudes == UNION {Magnitudes(n) : n \in 1 .. MaxEls}

\* values of an unsigned native type: every value of a type narrower than a
\* limb, limb-wise combinations for the types of one or more limbs
UnsignedValues(bits) ==
    IF bits < EL_SIZE_IN_BITS THEN 0 .. (Pow2(bits) - 1)
    ELSE {Value(m) : m \in Magnitudes(bits \div EL_SIZE_IN_BITS)}

\* the values of the native type t; a signed type takes the same bit patterns
ValuesOf(t) ==
    IF t.signed THEN {CastSigned(t, v) : v \in UnsignedValues(t.bits)}
    ELSE UnsignedValues(t.bits)

\* widths of the native operand types: narrower than, equal to, double a limb
OperandBits == {NARROW_BITS, EL_SIZE_IN_BITS, 2 * EL_SIZE_IN_BITS}

UnsignedTypes == {UnsignedT(w) : w \in OperandBits}

SignedTypes == {SignedT(w) : w \in OperandBits}

OperandTypes == UnsignedTypes \cup SignedTypes

\* the type el_t itself
EL_T == UnsignedT(EL_SIZE_IN_BITS)

\* the type tw_t
TW_T == UnsignedT(TW_SIZE_IN_BITS)

\* the type int of a literal
INT_T == SignedT(INT_BITS)

\* ------------------------------------------------------------------ one operation on a magnitude

\* the caller's variables the arithmetic and comparison operations leave alone
driverVars == <<r_expected, expected, actual_str, expected_str, test_i, pc>>

\* no comparison evaluated yet
NoComparison ==
    [ne |-> "none", eq |-> "none", gt |-> "none",
     lt |-> "none", geq |-> "none", leq |-> "none"]

\* any build, any magnitude of any limb count, no operation applied yet
InitArith ==
    /\ NDEBUG \in BOOLEAN
    /\ el \in AllMagnitudes
    /\ before = el
    /\ other = el
    /\ op = "init"
    /\ b_type = EL_T
    /\ b_val = 0
    /\ ret = 0
    /\ cmp = NoComparison
    /\ path = <<>>
    /\ path_other = <<>>
    /\ status = "ok"
    /\ accessed = {}
    /\ r_actual = 0
    /\ r_expected = 0
    /\ expected = 0
    /\ actual_str = <<>>
    /\ expected_str = <<>>
    /\ test_i = 0
    /\ pc = "running"

\* a += b for a native b
PlusEq ==
    /\ op = "init"
    /\ \E t \in OperandTypes : \E b \in ValuesOf(t) :
          /\ el' \in operator_pluseq(el, t, b, UnsignedValues(t.bits))
          /\ b_type' = t
          /\ b_val' = b
    /\ op' = "pluseq"
    /\ UNCHANGED <<NDEBUG, accessed, cmp, path, path_other, before, other, ret, status, r_actual, driverVars>>

\* a -= b for a native b
MinusEq ==
    /\ op = "init"
    /\ \E t \in OperandTypes : \E b \in ValuesOf(t) :
          /\ el' \in operator_minuseq(el, t, b, UnsignedValues(t.bits))
          /\ b_type' = t
          /\ b_val' = b
    /\ op' = "minuseq"
    /\ UNCHANGED <<NDEBUG, accessed, cmp, path, path_other, before, other, ret, status, r_actual, driverVars>>

\* a *= b for a native b
MulEq ==
    /\ op = "init"
    /\ \E t \in OperandTypes : \E b \in ValuesOf(t) :
          /\ el' = operator_muleq(el, t, b).el
          /\ status' = operator_muleq(el, t, b).status
          /\ b_type' = t
          /\ b_val' = b
    /\ op' = "muleq"
    /\ UNCHANGED <<NDEBUG, accessed, cmp, path, path_other, before, other, ret, r_actual, driverVars>>

\* a /= b for a nonzero el_t b
DivEq ==
    /\ op = "init"
    /\ \E b \in ValuesOf(EL_T) \ {0} :
          /\ el' = operator_diveq(el, b).el
          /\ ret' = operator_diveq(el, b).ret
          /\ b_val' = b
    /\ b_type' = EL_T
    /\ op' = "diveq"
    /\ UNCHANGED <<NDEBUG, accessed, cmp, path, path_other, before, other, status, r_actual, driverVars>>

\* r = a % b for a nonzero el_t b; the operator is const
Mod ==
    /\ op = "init"
    /\ \E b \in ValuesOf(EL_T) \ {0} :
          /\ ret' = operator_mod(el, b)
          /\ r_actual' = operator_mod(el, b)
          /\ b_val' = b
    /\ b_type' = EL_T
    /\ op' = "mod"
    /\ UNCHANGED <<NDEBUG, accessed, cmp, path, path_other, el, before, other, status, driverVars>>

\* after r = a % b the caller goes on with a /= b
ThenDivEq ==
    /\ op = "mod"
    /\ el' = operator_diveq(el, b_val).el
    /\ ret' = operator_diveq(el, b_val).ret
    /\ op' = "mod_diveq"
    /\ UNCHANGED <<NDEBUG, accessed, cmp, path, path_other, before, other, b_type, b_val, status, r_actual, driverVars>>

\* ... then a *= b
ThenMulEq ==
    /\ op = "mod_diveq"
    /\ el' = operator_muleq(el, b_type, b_val).el
    /\ status' = operator_muleq(el, b_type, b_val).status
    /\ op' = "mod_diveq_muleq"
    /\ UNCHANGED <<NDEBUG, accessed, cmp, path, path_other, before, other, b_type, b_val, ret, r_actual, driverVars>>

\* ... then a += r
ThenPlusEq ==
    /\ op = "mod_diveq_muleq"
    /\ el' \in operator_pluseq(el, EL_T, r_actual, {})
    /\ op' = "mod_diveq_muleq_pluseq"
    /\ UNCHANGED <<NDEBUG, accessed, cmp, path, path_other, before, other, b_type, b_val, ret, status, r_actual, driverVars>>

\* the caller computes c = -b in the signed type of b, then applies a += c to
\* one copy of the magnitude and a -= b to another
PlusEqNegatedAndMinusEq ==
    /\ op = "init"
    /\ \E t \in SignedTypes : \E b \in ValuesOf(t) :
          /\ el' \in operator_pluseq(el, t, CastSigned(t, 0 - b), UnsignedValues(t.bits))
          /\ other' \in operator_minuseq(el, t, b, UnsignedValues(t.bits))
          /\ b_type' = t
          /\ b_val' = b
    /\ op' = "pluseq_negated_and_minuseq"
    /\ UNCHANGED <<NDEBUG, accessed, cmp, path, path_other, before, ret, status, r_actual, driverVars>>

NextArith ==
    \/ PlusEq
    \/ MinusEq
    \/ MulEq
    \/ DivEq
    \/ Mod
    \/ ThenDivEq
    \/ ThenMulEq
    \/ ThenPlusEq
    \/ PlusEqNegatedAndMinusEq

SpecArith == InitArith /\ [][NextArith]_vars

\* ------------------------------------------------------------------ properties of one operation

\* 2^N of the magnitude in el
N_Modulus == Modulus(SIZE_IN_ELS(el))

\* C2: add-assign with an unsigned native operand of any of the widths (narrower
\* than, equal to, double a limb; also wider than the magnitude) leaves
\* (a + b) mod 2^N: carries reach every higher limb, the carry out of the top
\* limb is dropped.
C2_AddAssignWraps ==
    (op = "pluseq" /\ ~b_type.signed)
        => Value(el) = (Value(before) + b_val) % N_Modulus

\* C2 witness: a double-limb operand added to a magnitude of three limbs, the
\* carry running through the limb above the operand and out of the top limb.
C2_Witness ==
    /\ op = "pluseq"
    /\ b_type = TW_T
    /\ SIZE_IN_ELS(el) = 3
    /\ Value(before) + b_val >= N_Modulus
    /\ Value(before) < TW_BASE * (BASE - 1) + TW_BASE

\* C3: multiply-assign with a double-limb unsigned operand leaves
\* (a * b) mod 2^N.
C3_MulAssignDoubleLimb ==
    (op = "muleq" /\ b_type = TW_T)
        => Value(el) = (Value(before) * b_val) % N_Modulus

\* C4: divide-assign with a nonzero limb-width operand leaves floor(a / b) and
\* returns a mod b.
C4_DivAssign ==
    op = "diveq"
        => /\ Value(el) = Value(before) \div b_val
           /\ ret = Value(before) % b_val

\* C4 witness: a division of a magnitude of more than one limb whose quotient
\* has a nonzero limb above the lowest and whose remainder is nonzero.
C4_Witness ==
    /\ op = "diveq"
    /\ SIZE_IN_ELS(el) >= 2
    /\ b_val > 1
    /\ el[1] # 0
    /\ ret # 0

\* C5: modulo with a nonzero limb-width operand returns a mod b and leaves
\* every limb of the magnitude as it was.
C5_ModuloFrame ==
    op = "mod"
        => /\ ret = Value(before) % b_val
           /\ el = before

\* C5 witness: a modulo of a magnitude with nonzero upper limbs, with a nonzero
\* remainder that differs from that of the lowest limb alone.
C5_Witness ==
    /\ op = "mod"
    /\ SIZE_IN_ELS(el) >= 2
    /\ el[SIZE_IN_ELS(el) - 1] # 0
    /\ ret # 0
    /\ ret # el[0] % b_val

\* C6: r = a % b, then a /= b, a *= b, a += r restores the magnitude a.
C6_DivMulAddRestores ==
    op = "mod_diveq_muleq_pluseq" => el = before

\* C6 witness: the round trip completed on a magnitude of more than one limb
\* with a nonzero remainder and a divisor above one.
C6_Witness ==
    /\ op = "mod_diveq_muleq_pluseq"
    /\ SIZE_IN_ELS(el) >= 2
    /\ r_actual # 0
    /\ b_val > 1
    /\ el[SIZE_IN_ELS(el) - 1] # 0

\* C9 as claimed: for every value b of a signed native type, the minimum value
\* included, a += (-b) leaves the magnitude that a -= b leaves.
C9_Original ==
    op = "pluseq_negated_and_minuseq" => el = other

\* C9 amended: for every value b of a signed native type other than the
\* minimum value of the type, a += (-b) leaves the magnitude that a -= b leaves.
C9_NegatedAddEqualsSub ==
    (op = "pluseq_negated_and_minuseq" /\ b_val # MinValue(b_type))
        => el = other

\* C9 witness: a negative b other than the minimum, on a magnitude whose
\* addition of -b carries out of the lowest limb.
C9_Witness ==
    /\ op = "pluseq_negated_and_minuseq"
    /\ b_val < 0
    /\ b_val # MinValue(b_type)
    /\ SIZE_IN_ELS(el) >= 2
    /\ el[0] < before[0]

\* ------------------------------------------------------------------ test.cpp: the differential driver

\* limbs of the bui<128> under test: 128 / 32
TEST_SIZE_IN_ELS == 4

\* number of values of the reference type uint128_t
UINT128_MODULUS == Modulus(TEST_SIZE_IN_ELS)

\* values std::rand() hands to op_val
DriverVals == {0, 1, 3, 10, BASE - 1}

\* main: before = 0, expected = 0, bui<128> actual = 0, i = 0
Init ==
    /\ NDEBUG \in BOOLEAN
    /\ el = bui(TEST_SIZE_IN_ELS, INT_T, 0)
    /\ before = el
    /\ other = el
    /\ op = "init"
    /\ b_type = EL_T
    /\ b_val = 0
    /\ ret = 0
    /\ cmp = NoComparison
    /\ path = <<>>
    /\ path_other = <<>>
    /\ status = "ok"
    /\ accessed = {}
    /\ r_actual = 0
    /\ r_expected = 0
    /\ expected = 0
    /\ actual_str = <<>>
    /\ expected_str = <<>>
    /\ test_i = 0
    /\ pc = "running"

\* the end of the loop body: if (to_string(actual) != to_string(expected))
\* return 1; otherwise i++
CompareStrings(actual, exp) ==
    /\ actual_str' = uint_to_string(actual)
    /\ expected_str' = to_string(exp)
    /\ IF uint_to_string(actual) # to_string(exp)
       THEN pc' = "failed" /\ test_i' = test_i
       ELSE pc' = "running" /\ test_i' = test_i + 1

\* what every case of the switch does to the caller's bookkeeping
TestStep(name, val) ==
    /\ op' = name
    /\ b_type' = EL_T
    /\ b_val' = val
    /\ before' = el
    /\ UNCHANGED <<NDEBUG, accessed, cmp, path, path_other, other, status>>

\* case 0: expected += op_val; actual += op_val
TestPlus ==
    /\ pc = "running"
    /\ test_i < MaxSteps
    /\ \E op_val \in DriverVals :
          /\ expected' = (expected + op_val) % UINT128_MODULUS
          /\ el' \in operator_pluseq(el, EL_T, op_val, {})
          /\ TestStep("pluseq", op_val)
    /\ r_actual' = 0
    /\ r_expected' = 0
    /\ ret' = 0
    /\ CompareStrings(el', expected')

\* case 1: expected -= op_val; actual -= op_val
TestMinus ==
    /\ pc = "running"
    /\ test_i < MaxSteps
    /\ \E op_val \in DriverVals :
          /\ expected' = (expected - op_val) % UINT128_MODULUS
          /\ el' \in operator_minuseq(el, EL_T, op_val, {})
          /\ TestStep("minuseq", op_val)
    /\ r_actual' = 0
    /\ r_expected' = 0
    /\ ret' = 0
    /\ CompareStrings(el', expected')

\* case 2: expected *= op_val; actual *= op_val
TestMul ==
    /\ pc = "running"
    /\ test_i < MaxSteps
    /\ \E op_val \in DriverVals :
          /\ expected' = (expected * op_val) % UINT128_MODULUS
          /\ el' = operator_muleq(el, EL_T, op_val).el
          /\ TestStep("muleq", op_val)
    /\ r_actual' = 0
    /\ r_expected' = 0
    /\ ret' = 0
    /\ CompareStrings(el', expected')

\* case 3: op_val += (op_val == 0); expected /= op_val; actual /= op_val
TestDiv ==
    /\ pc = "running"
    /\ test_i < MaxSteps
    /\ \E rnd \in DriverVals :
          LET op_val == (rnd + B2I(rnd = 0)) % BASE
          IN /\ expected' = expected \div op_val
             /\ el' = operator_diveq(el, op_val).el
             /\ ret' = operator_diveq(el, op_val).ret
             /\ TestStep("diveq", op_val)
    /\ r_actual' = 0
    /\ r_expected' = 0
    /\ CompareStrings(el', expected')

\* case 4: op_val += (op_val == 0); r_expected = expected % op_val;
\* r_actual = actual % op_val; if (r_actual != r_expected) return 1
TestMod ==
    /\ pc = "running"
    /\ test_i < MaxSteps
    /\ \E rnd \in DriverVals :
          LET op_val == (rnd + B2I(rnd = 0)) % BASE
          IN /\ r_expected' = (expected % op_val) % BASE
             /\ r_actual' = operator_mod(el, op_val)
             /\ ret' = operator_mod(el, op_val)
             /\ TestStep("mod", op_val)
    /\ UNCHANGED <<el, expected>>
    /\ IF r_actual' # r_expected'
       THEN pc' = "failed" /\ UNCHANGED <<actual_str, expected_str, test_i>>
       ELSE CompareStrings(el, expected)

\* the loop ends: "tests completed successfully", return 0
TestCompleted ==
    /\ pc = "running"
    /\ test_i = MaxSteps
    /\ pc' = "completed"
    /\ UNCHANGED <<NDEBUG, accessed, cmp, path, path_other, el, before, other, op, b_type, b_val, ret, status,
                   r_actual, r_expected, expected, actual_str, expected_str, test_i>>

Next ==
    \/ TestPlus
    \/ TestMinus
    \/ TestMul
    \/ TestDiv
    \/ TestMod
    \/ TestCompleted

Spec == Init /\ [][Next]_vars

\* C1: from magnitude 0 and reference 0, after every step of any sequence of
\* +=, -=, *=, /=, % with a limb-width operand the magnitude equals the
\* reference computed modulo 2^128, both render to the same decimal string, and
\* for % the returned remainder equals the reference remainder; the driver
\* never returns 1.
C1_DriverAgrees ==
    /\ pc # "failed"
    /\ Value(el) = expected
    /\ op # "init" => actual_str = expected_str
    /\ op = "mod" => r_actual = r_expected

\* C1 witness: the third step was a modulo with a nonzero remainder, taken on a
\* value of at least four decimal digits that an earlier step had changed.
C1_Witness ==
    /\ test_i >= 3
    /\ op = "mod"
    /\ r_actual # 0
    /\ Len(actual_str) >= 4
    /\ el[TEST_SIZE_IN_ELS - 1] # 0

\* ------------------------------------------------------------------ comparison against a native operand

\* the six comparison operators of bui evaluated on the magnitude a and the
\* operand b of type t, each call on its own
CompareAll(a, t, b) ==
    [ne  |-> operator_neq(a, t, b),
     eq  |-> operator_eq(a, t, b),
     gt  |-> operator_gt(a, t, b),
     lt  |-> operator_lt(a, t, b),
     geq |-> operator_geq(a, t, b),
     leq |-> operator_leq(a, t, b)]

\* a caller compares the magnitude with an operand of an unsigned native type
CompareUnsigned ==
    /\ op = "init"
    /\ \E t \in UnsignedTypes : \E b \in ValuesOf(t) :
          /\ cmp' = CompareAll(el, t, b)
          /\ b_type' = t
          /\ b_val' = b
    /\ op' = "compare"
    /\ UNCHANGED <<NDEBUG, accessed, el, before, other, ret, path, path_other, status, r_actual, driverVars>>

\* a caller compares the magnitude with an operand of a signed native type
CompareSigned ==
    /\ op = "init"
    /\ \E t \in SignedTypes : \E b \in ValuesOf(t) :
          /\ cmp' = CompareAll(el, t, b)
          /\ b_type' = t
          /\ b_val' = b
    /\ op' = "compare"
    /\ UNCHANGED <<NDEBUG, accessed, el, before, other, ret, path, path_other, status, r_actual, driverVars>>

NextCmp ==
    \/ CompareUnsigned
    \/ CompareSigned

SpecCmp == InitArith /\ [][NextCmp]_vars

\* every comparison returned a bool
AllReturned == \A k \in DOMAIN cmp : cmp[k] \in {"true", "false"}

\* C7: for every magnitude and every native operand, unsigned or signed, of any
\* of the widths, exactly one of a < b, a == b, a > b is true, a <= b equals
\* (a < b or a == b), a >= b equals (a > b or a == b), a != b equals
\* not (a == b).
C7_ComparisonTotality ==
    op = "compare"
        => /\ AllReturned
           /\ Cardinality({k \in {"lt", "eq", "gt"} : cmp[k] = "true"}) = 1
           /\ (cmp.leq = "true") <=> (cmp.lt = "true" \/ cmp.eq = "true")
           /\ (cmp.geq = "true") <=> (cmp.gt = "true" \/ cmp.eq = "true")
           /\ (cmp.ne = "true") <=> ~(cmp.eq = "true")

\* C8: for every magnitude, zero included, and every negative signed operand,
\* a > b, a >= b and a != b return true, a < b, a <= b and a == b return false.
C8_NegativeOperandIsLess ==
    (op = "compare" /\ b_type.signed /\ b_val < 0)
        => /\ cmp.gt = "true"
           /\ cmp.geq = "true"
           /\ cmp.ne = "true"
           /\ cmp.lt = "false"
           /\ cmp.leq = "false"
           /\ cmp.eq = "false"

\* ------------------------------------------------------------------ shifts

\* what a shift of an el_t by s bits can give: defined for s < EL_SIZE_IN_BITS;
\* a shift by the whole width is undefined, and gives zero where the compiler
\* folds it ("zero") and the operand itself where the machine takes the count
\* modulo the width ("same")
ShiftOutcomes == {"zero", "same"}

\* el << s
el_shl(v, s, over) ==
    IF s < EL_SIZE_IN_BITS THEN (v * Pow2(s)) % BASE
    ELSE IF over = "zero" THEN 0 ELSE v

\* el >> s
el_shr(v, s, over) ==
    IF s < EL_SIZE_IN_BITS THEN v \div Pow2(s)
    ELSE IF over = "zero" THEN 0 ELSE v

\* bui::loshift_bits<WIDTH>, its loop: el[i - 1] |= el[i] << (EL_SIZE_IN_BITS -
\* WIDTH); el[i] >>= WIDTH
RECURSIVE loshift_bits_loop(_, _, _, _)
loshift_bits_loop(m, i, WIDTH, over) ==
    IF i >= SIZE_IN_ELS(m) THEN m
    ELSE LET lo == BitOr(m[i - 1], el_shl(m[i], EL_SIZE_IN_BITS - WIDTH, over))
         IN loshift_bits_loop([m EXCEPT ![i - 1] = lo,
                                        ![i] = el_shr(m[i], WIDTH, over)],
                              i + 1, WIDTH, over)

\* bui::loshift_bits<WIDTH>: el[0] >>= WIDTH, then the loop from limb 1 up
loshift_bits(m, WIDTH, over) ==
    loshift_bits_loop([m EXCEPT ![0] = el_shr(m[0], WIDTH, over)], 1, WIDTH, over)

\* bui::hishift_bits<WIDTH>, its loop: el[i + 1] |= el[i] >> (EL_SIZE_IN_BITS -
\* WIDTH); el[i] <<= WIDTH
RECURSIVE hishift_bits_loop(_, _, _, _)
hishift_bits_loop(m, i, WIDTH, over) ==
    IF i < 0 THEN m
    ELSE LET hi == BitOr(m[i + 1], el_shr(m[i], EL_SIZE_IN_BITS - WIDTH, over))
         IN hishift_bits_loop([m EXCEPT ![i + 1] = hi,
                                        ![i] = el_shl(m[i], WIDTH, over)],
                              i - 1, WIDTH, over)

\* bui::hishift_bits<WIDTH>: el[SIZE_IN_ELS - 1] <<= WIDTH, then the loop from
\* limb SIZE_IN_ELS - 2 down
hishift_bits(m, WIDTH, over) ==
    LET top == SIZE_IN_ELS(m) - 1
    IN hishift_bits_loop([m EXCEPT ![top] = el_shl(m[top], WIDTH, over)],
                         top - 1, WIDTH, over)

\* bui::loshift_1el: el[i] = el[i + 1] for i < SIZE_IN_ELS - 1, then the top
\* limb is zeroed
loshift_1el(m) ==
    [i \in DOMAIN m |-> IF i < SIZE_IN_ELS(m) - 1 THEN m[i + 1] ELSE 0]

\* bui::hishift_1el: el[i] = el[i - 1] from the top limb down to limb 0, then
\* el[0] = 0 (which overwrites what the step i = 0 stored)
hishift_1el(m) ==
    [i \in DOMAIN m |-> IF i > 0 THEN m[i - 1] ELSE 0]

\* ------------------------------------------------------------------ control flow

\* the iterations of a loop for (i = from; i < to; i++) (or its mirror image
\* counting down), one step each; the condition reads no limb
RECURSIVE ForPath(_, _, _)
ForPath(label, from, to) ==
    IF from >= to THEN <<>> ELSE <<label>> \o ForPath(label, from + 1, to)

\* an assert(c): nothing when it passes, the abort when it fails
AssertPath(c) == IF AssertPasses(c) THEN <<>> ELSE <<"abort">>

\* the steps p, then the steps q unless p ended in the abort
Then(p, q) == IF p # <<>> /\ p[Len(p)] = "abort" THEN p ELSE p \o q

\* bui(const INT_T &): the compile-time dispatch, set_uint and the loop of
\* set_zero_starting_at_el
bui_path(n, t, value) ==
    Then(AssertPath(~make_unsigned_t(t).signed),
         ForPath("set_zero_starting_at_el.for", set_uint_els(n, t), n))

\* the loop of is_zero_starting_at_el / is_nonzero_starting_at_el that the six
\* operator_.._uint routines run after their assert
cmp_uint_path(m, t) ==
    Then(AssertPath(~t.signed),
         ForPath("starting_at_el.for",
                 IF EL_SIZE_IN_BITS >= t.bits THEN 1 ELSE ElsOf(t), SIZE_IN_ELS(m)))

\* operator!= and operator==: both hand the unsigned cast of b on
cmp_cast_path(m, t, b) == cmp_uint_path(m, make_unsigned_t(t))

\* operator>, operator<, operator>=, operator<=: b is handed on as it is
cmp_plain_path(m, t, b) == cmp_uint_path(m, t)

\* the six comparisons, one after the other
CompareAll_path(m, t, b) ==
    <<cmp_cast_path(m, t, b), cmp_cast_path(m, t, b), cmp_plain_path(m, t, b),
      cmp_plain_path(m, t, b), cmp_plain_path(m, t, b), cmp_plain_path(m, t, b)>>

\* a routine whose second loop is skipped when the lowest limb cannot carry
pluseq_uint_path_early_exit(m, t) ==
    Then(AssertPath(~t.signed),
         ForPath("operand.for", 0, B_EL_COUNT(m, t))
             \o ForPath("carry.for", B_EL_COUNT(m, t),
                        IF m[0] = 0 THEN B_EL_COUNT(m, t) ELSE SIZE_IN_ELS(m)))

\* operator_pluseq_uint and operator_minuseq_uint: the two loops
pluseq_uint_path(m, t) ==
    Then(AssertPath(~t.signed),
         ForPath("operand.for", 0, B_EL_COUNT(m, t))
             \o ForPath("carry.for", B_EL_COUNT(m, t), SIZE_IN_ELS(m)))

\* operator+= and operator-=: the branch on the sign of b, then the routine
pluseq_path(m, t, b) ==
    IF ~t.signed THEN <<"unsigned">> \o pluseq_uint_path(m, t)
    ELSE IF b >= 0 THEN <<"b >= 0">> \o pluseq_uint_path(m, make_unsigned_t(t))
    ELSE <<"b < 0">> \o pluseq_uint_path(m, make_unsigned_t(t))

\* operator*=: the branch on the sign of b, then the loop over all limbs
muleq_path(m, t, b) ==
    IF ~t.signed THEN <<"unsigned">> \o ForPath("muleq.for", 0, SIZE_IN_ELS(m))
    ELSE IF b >= 0 THEN <<"b >= 0">> \o ForPath("muleq.for", 0, SIZE_IN_ELS(m))
    ELSE <<"b < 0">> \o AssertPath(b >= 0)

\* operator/= and operator%: the loop from the top limb down to limb 0
diveq_path(m, b) == ForPath("div.for", 0, SIZE_IN_ELS(m))

\* loshift_bits and hishift_bits: SIZE_IN_ELS - 1 iterations
shift_bits_path(m, WIDTH) == ForPath("shift_bits.for", 1, SIZE_IN_ELS(m))

\* loshift_1el: for (i = 0; i < SIZE_IN_ELS - 1; i++)
loshift_1el_path(m) == ForPath("loshift_1el.for", 0, SIZE_IN_ELS(m) - 1)

\* hishift_1el: for (i = SIZE_IN_ELS - 1; i < SIZE_IN_ELS; i--)
hishift_1el_path(m) == ForPath("hishift_1el.for", 0, SIZE_IN_ELS(m))

\* bui::bitlen(): for (i = SIZE_IN_ELS - 1; i < SIZE_IN_ELS; i--)
\* if (el[i] != 0) return ...; the loop ends at the first nonzero limb
RECURSIVE bitlen_path(_, _)
bitlen_path(m, i) ==
    IF i < 0 THEN <<>>
    ELSE IF m[i] # 0 THEN <<"bitlen.for", "el[i] != 0">>
    ELSE <<"bitlen.for", "el[i] == 0">> \o bitlen_path(m, i - 1)

\* uint_to_string<bui<N>>: each turn of the do-while runs tmp % 10, tmp /= 10
\* and tmp != 0, and goes on while tmp != 0
RECURSIVE uint_to_string_path(_)
uint_to_string_path(tmp) ==
    LET q == operator_diveq(tmp, 10).el
        turn == <<"do">> \o diveq_path(tmp, 10) \o diveq_path(tmp, 10)
                    \o cmp_cast_path(q, INT_T, 0)
    IN IF operator_neq(q, INT_T, 0) = "true"
       THEN turn \o <<"tmp != 0">> \o uint_to_string_path(q)
       ELSE turn \o <<"tmp == 0">>

\* ------------------------------------------------------------------ two lanes

\* limb values of the two lanes
LaneVals == {0, BASE - 1}

\* operand values of the type t the lanes are run with: zero, one, the top bit
\* alone (the minimum of a signed type), all bits set (-1 of a signed type)
LaneValuesOf(t) ==
    LET pats == {0, 1, Pow2(t.bits - 1), Pow2(t.bits) - 1}
    IN IF t.signed THEN {CastSigned(t, v) : v \in pats} ELSE pats

\* two magnitudes of the same width holding different limbs
InitLanes ==
    /\ NDEBUG \in BOOLEAN
    /\ \E n \in 1 .. MaxEls :
          /\ el \in [0 .. (n - 1) -> LaneVals]
          /\ other \in [0 .. (n - 1) -> LaneVals]
    /\ el # other
    /\ before = el
    /\ op = "init"
    /\ b_type = EL_T
    /\ b_val = 0
    /\ ret = 0
    /\ cmp = NoComparison
    /\ path = <<>>
    /\ path_other = <<>>
    /\ status = "ok"
    /\ accessed = {}
    /\ r_actual = 0
    /\ r_expected = 0
    /\ expected = 0
    /\ actual_str = <<>>
    /\ expected_str = <<>>
    /\ test_i = 0
    /\ pc = "running"

\* what no lane operation changes
laneFrame == <<NDEBUG, accessed, before, ret, cmp, status, r_actual, driverVars>>

\* both lanes are constructed anew, each from its own value of the same type
LanesConstruct ==
    /\ op = "init"
    /\ \E t \in OperandTypes : \E v \in LaneValuesOf(t) : \E w \in LaneValuesOf(t) :
          /\ v # w
          /\ el' = bui(SIZE_IN_ELS(el), t, v)
          /\ other' = bui(SIZE_IN_ELS(other), t, w)
          /\ path' = bui_path(SIZE_IN_ELS(el), t, v)
          /\ path_other' = bui_path(SIZE_IN_ELS(other), t, w)
          /\ b_type' = t
          /\ b_val' = v
    /\ op' = "construct"
    /\ UNCHANGED laneFrame

\* both lanes are compared with the same operand by all six operators
LanesCompare ==
    /\ op = "init"
    /\ \E t \in OperandTypes : \E b \in LaneValuesOf(t) :
          /\ path' = CompareAll_path(el, t, b)
          /\ path_other' = CompareAll_path(other, t, b)
          /\ b_type' = t
          /\ b_val' = b
    /\ op' = "compare"
    /\ UNCHANGED <<el, other>>
    /\ UNCHANGED laneFrame

\* both lanes run += b
LanesPlusEq ==
    /\ op = "init"
    /\ \E t \in OperandTypes : \E b \in LaneValuesOf(t) :
          /\ el' \in operator_pluseq(el, t, b, LaneValuesOf(make_unsigned_t(t)))
          /\ other' \in operator_pluseq(other, t, b, LaneValuesOf(make_unsigned_t(t)))
          /\ path' = pluseq_path(el, t, b)
          /\ path_other' = pluseq_path(other, t, b)
          /\ b_type' = t
          /\ b_val' = b
    /\ op' = "pluseq"
    /\ UNCHANGED laneFrame

\* both lanes run -= b
LanesMinusEq ==
    /\ op = "init"
    /\ \E t \in OperandTypes : \E b \in LaneValuesOf(t) :
          /\ el' \in operator_minuseq(el, t, b, LaneValuesOf(make_unsigned_t(t)))
          /\ other' \in operator_minuseq(other, t, b, LaneValuesOf(make_unsigned_t(t)))
          /\ path' = pluseq_path(el, t, b)
          /\ path_other' = pluseq_path(other, t, b)
          /\ b_type' = t
          /\ b_val' = b
    /\ op' = "minuseq"
    /\ UNCHANGED laneFrame

\* both lanes run *= b
LanesMulEq ==
    /\ op = "init"
    /\ \E t \in OperandTypes : \E b \in LaneValuesOf(t) :
          /\ el' = operator_muleq(el, t, b).el
          /\ other' = operator_muleq(other, t, b).el
          /\ path' = muleq_path(el, t, b)
          /\ path_other' = muleq_path(other, t, b)
          /\ b_type' = t
          /\ b_val' = b
    /\ op' = "muleq"
    /\ UNCHANGED laneFrame

\* both lanes run /= b for a nonzero el_t b
LanesDivEq ==
    /\ op = "init"
    /\ \E b \in LaneValuesOf(EL_T) \ {0} :
          /\ el' = operator_diveq(el, b).el
          /\ other' = operator_diveq(other, b).el
          /\ path' = diveq_path(el, b)
          /\ path_other' = diveq_path(other, b)
          /\ b_val' = b
    /\ b_type' = EL_T
    /\ op' = "diveq"
    /\ UNCHANGED laneFrame

\* both lanes run % b for a nonzero el_t b
LanesMod ==
    /\ op = "init"
    /\ \E b \in LaneValuesOf(EL_T) \ {0} :
          /\ path' = diveq_path(el, b)
          /\ path_other' = diveq_path(other, b)
          /\ b_val' = b
    /\ b_type' = EL_T
    /\ op' = "mod"
    /\ UNCHANGED <<el, other>>
    /\ UNCHANGED laneFrame

\* both lanes run loshift_bits<WIDTH> or hishift_bits<WIDTH>, 0 < WIDTH
LanesShiftBits ==
    /\ op = "init"
    /\ \E WIDTH \in 1 .. (EL_SIZE_IN_BITS - 1) :
          /\ \/ el' = loshift_bits(el, WIDTH, "zero") /\ other' = loshift_bits(other, WIDTH, "zero")
             \/ el' = hishift_bits(el, WIDTH, "zero") /\ other' = hishift_bits(other, WIDTH, "zero")
          /\ path' = shift_bits_path(el, WIDTH)
          /\ path_other' = shift_bits_path(other, WIDTH)
          /\ b_val' = WIDTH
    /\ op' = "shift_bits"
    /\ UNCHANGED b_type
    /\ UNCHANGED laneFrame

\* both lanes run loshift_1el
LanesLoshift1El ==
    /\ op = "init"
    /\ el' = loshift_1el(el)
    /\ other' = loshift_1el(other)
    /\ path' = loshift_1el_path(el)
    /\ path_other' = loshift_1el_path(other)
    /\ op' = "loshift_1el"
    /\ UNCHANGED <<b_type, b_val>>
    /\ UNCHANGED laneFrame

\* both lanes run hishift_1el
LanesHishift1El ==
    /\ op = "init"
    /\ el' = hishift_1el(el)
    /\ other' = hishift_1el(other)
    /\ path' = hishift_1el_path(el)
    /\ path_other' = hishift_1el_path(other)
    /\ op' = "hishift_1el"
    /\ UNCHANGED <<b_type, b_val>>
    /\ UNCHANGED laneFrame

\* both lanes run bitlen()
LanesBitlen ==
    /\ op = "init"
    /\ path' = bitlen_path(el, SIZE_IN_ELS(el) - 1)
    /\ path_other' = bitlen_path(other, SIZE_IN_ELS(other) - 1)
    /\ op' = "bitlen"
    /\ UNCHANGED <<el, other, b_type, b_val>>
    /\ UNCHANGED laneFrame

\* both lanes run str()
LanesStr ==
    /\ op = "init"
    /\ path' = uint_to_string_path(el)
    /\ path_other' = uint_to_string_path(other)
    /\ op' = "str"
    /\ UNCHANGED <<el, other, b_type, b_val>>
    /\ UNCHANGED laneFrame

NextLanes ==
    \/ LanesConstruct
    \/ LanesCompare
    \/ LanesPlusEq
    \/ LanesMinusEq
    \/ LanesMulEq
    \/ LanesDivEq
    \/ LanesMod
    \/ LanesShiftBits
    \/ LanesLoshift1El
    \/ LanesHishift1El
    \/ LanesBitlen
    \/ LanesStr

SpecLanes == InitLanes /\ [][NextLanes]_vars

\* C10 as claimed: two magnitudes of the same width holding different limbs
\* take the identical sequence of control-flow steps through the same
\* operation, whichever operation it is.
C10_Original == path = path_other

\* C10 amended: the same, for every operation but bitlen() and the conversion
\* to a decimal string.
C10_LanesCoherent ==
    op \notin {"bitlen", "str"} => path = path_other

\* C10 witness: an addition whose carry runs through every limb of one lane
\* and stops in the lowest limb of the other, both lanes having taken the same
\* non-empty sequence of steps.
C10_Witness ==
    /\ op = "pluseq"
    /\ SIZE_IN_ELS(el) >= 3
    /\ \A k \in DOMAIN el : el[k] = 0
    /\ \E k \in DOMAIN other : other[k] # 0
    /\ before # el
    /\ Len(path) > SIZE_IN_ELS(el)
    /\ path = path_other

\* ------------------------------------------------------------------ construction from and conversion to a native value

\* largest number of limbs of a magnitude built from a native value
MaxConvEls == 8

\* widths of the native unsigned types: narrower than a limb, 1, 2, 4 and 8 limbs
ConvBits == {NARROW_BITS, EL_SIZE_IN_BITS, 2 * EL_SIZE_IN_BITS,
             4 * EL_SIZE_IN_BITS, 8 * EL_SIZE_IN_BITS}

ConvTypes == {UnsignedT(w) : w \in ConvBits}

\* limb values the native values are built from
ConvLimbVals == {0, 1, BASE - 1}

\* number of whole limbs of a sampled native value of `bits` bits: all of them,
\* but no more than fit below bit 30
ConvValueEls(bits) == Min(bits \div EL_SIZE_IN_BITS, 30 \div EL_SIZE_IN_BITS)

\* sampled values of the unsigned native type t: every value of a type
\* narrower than a limb; for the wider types the limb-wise combinations of
\* ConvLimbVals, and for a type with more limbs than ConvValueEls also those
\* with the lowest bit of the next limb set
ConvValues(t) ==
    IF t.bits < EL_SIZE_IN_BITS THEN 0 .. (Pow2(t.bits) - 1)
    ELSE LET k == ConvValueEls(t.bits)
             low == {Value(m) : m \in [0 .. (k - 1) -> ConvLimbVals]}
         IN IF k * EL_SIZE_IN_BITS < t.bits
            THEN {x + h * Pow2(k * EL_SIZE_IN_BITS) : x \in low, h \in {0, 1}}
            ELSE low

\* x < 2^N for a magnitude of n limbs
FitsEls(x, n) == ShiftRight(x, n * EL_SIZE_IN_BITS) = 0

\* bui() leaves the limbs uninitialized: any content, here all limbs clear or
\* all limbs set
InitConv ==
    /\ NDEBUG \in BOOLEAN
    /\ \E n \in 1 .. MaxConvEls : \E fill \in {0, BASE - 1} :
          el = [i \in 0 .. (n - 1) |-> fill]
    /\ before = el
    /\ other = el
    /\ op = "init"
    /\ b_type = EL_T
    /\ b_val = 0
    /\ ret = 0
    /\ cmp = NoComparison
    /\ path = <<>>
    /\ path_other = <<>>
    /\ status = "ok"
    /\ accessed = {}
    /\ r_actual = 0
    /\ r_expected = 0
    /\ expected = 0
    /\ actual_str = <<>>
    /\ expected_str = <<>>
    /\ test_i = 0
    /\ pc = "running"

\* bui<N> a(value) for a value of an unsigned native type
Construct ==
    /\ op = "init"
    /\ \E t \in ConvTypes : \E x \in ConvValues(t) :
          /\ el' = bui(SIZE_IN_ELS(el), t, x)
          /\ b_type' = t
          /\ b_val' = x
    /\ op' = "construct"
    /\ UNCHANGED <<NDEBUG, accessed, before, other, ret, cmp, path, path_other, status,
                   r_actual, driverVars>>

\* a.as<UINT_T>() with the type the magnitude was constructed from
As ==
    /\ op = "construct"
    /\ ret' = as(el, b_type)
    /\ op' = "as"
    /\ UNCHANGED <<NDEBUG, accessed, el, before, other, b_type, b_val, cmp, path, path_other,
                   status, r_actual, driverVars>>

NextConv ==
    \/ Construct
    \/ As

SpecConv == InitConv /\ [][NextConv]_vars

\* C11: a magnitude of 1..MaxConvEls limbs constructed from a value x of an
\* unsigned native type (narrower than a limb, or 1, 2, 4, 8 limbs wide) with
\* x < 2^N has every limb above the operand's width zero, and extracting it
\* back to the same type returns x
C11_NativeRoundTrip ==
    /\ (op \in {"construct", "as"} /\ FitsEls(b_val, SIZE_IN_ELS(el)))
           => \A i \in DOMAIN el : (i * EL_SIZE_IN_BITS >= b_type.bits) => el[i] = 0
    /\ (op = "as" /\ FitsEls(b_val, SIZE_IN_ELS(el))) => ret = b_val

\* an 8-limb magnitude constructed from a value of the 8-limb type with its
\* lowest and its highest limb nonzero, extracted back
C11_Witness ==
    /\ op = "as"
    /\ b_type.bits = 8 * EL_SIZE_IN_BITS
    /\ SIZE_IN_ELS(el) = 8
    /\ FitsEls(b_val, SIZE_IN_ELS(el))
    /\ el[0] # 0
    /\ el[7] # 0

\* ------------------------------------------------------------------ decimal strings

\* the characters of the sampled strings: decimal digits, and the neighbours
\* of '0' and '9' in the character set
Digits == {"0", "1", "2", "3", "4", "5", "6", "7", "8", "9"}

Chars == Digits \cup {"/", ":"}

\* the character code of c
CharCode(c) ==
    CASE c = "/" -> 47
      [] c = "0" -> 48 [] c = "1" -> 49 [] c = "2" -> 50 [] c = "3" -> 51
      [] c = "4" -> 52 [] c = "5" -> 53 [] c = "6" -> 54 [] c = "7" -> 55
      [] c = "8" -> 56 [] c = "9" -> 57
      [] c = ":" -> 58

\* (el_t) (c - '0')
DigitOf(c) == (CharCode(c) - CharCode("0")) % BASE

\* a set_from_str whose loop adds the digit without multiplying by 10 first
RECURSIVE set_from_str_loop_no_mul(_, _, _)
set_from_str_loop_no_mul(m, str, i) ==
    IF i > Len(str) THEN [el |-> m, status |-> "ok"]
    ELSE set_from_str_loop_no_mul(operator_pluseq_uint(m, EL_T, DigitOf(str[i])), str, i + 1)

\* bui::set_from_str, its loop: assert(c >= '0'); assert(c <= '9');
\* *this *= 10; *this += (el_t) (c - '0')
RECURSIVE set_from_str_loop(_, _, _)
set_from_str_loop(m, str, i) ==
    IF i > Len(str) THEN [el |-> m, status |-> "ok"]
    ELSE IF ~AssertPasses(str[i] \in Digits) THEN [el |-> m, status |-> "assert_failed"]
    ELSE LET m10 == operator_muleq(m, INT_T, 10).el
         IN set_from_str_loop(operator_pluseq_uint(m10, EL_T, DigitOf(str[i])), str, i + 1)

\* bui::set_from_str
set_from_str(m, str) == set_from_str_loop(set_zero(m), str, 1)

\* bui::str
str(m) == uint_to_string(m)

\* strings a caller hands in: up to two characters
SampleStrings == {<<>>} \cup {<<c>> : c \in Chars} \cup {<<c, e>> : c \in Chars, e \in Chars}

\* a.str()
Str ==
    /\ op = "init"
    /\ actual_str' = str(el)
    /\ op' = "str"
    /\ UNCHANGED <<NDEBUG, accessed, el, before, other, b_type, b_val, ret, cmp, path, path_other,
                   status, r_actual, r_expected, expected, expected_str, test_i, pc>>

\* a second magnitude of the same width, uninitialized (all limbs clear or all
\* limbs set), is set from the string a.str() returned
SetFromStr ==
    /\ op = "str"
    /\ \E fill \in {0, BASE - 1} :
          LET r == set_from_str([i \in DOMAIN el |-> fill], actual_str)
          IN /\ other' = r.el
             /\ status' = r.status
    /\ op' = "set_from_str"
    /\ UNCHANGED <<NDEBUG, accessed, el, before, b_type, b_val, ret, cmp, path, path_other,
                   r_actual, driverVars>>

\* the magnitude is set from a string of the caller
SetFromChars ==
    /\ op = "init"
    /\ \E s \in SampleStrings :
          LET r == set_from_str(el, s)
          IN /\ el' = r.el
             /\ status' = r.status
             /\ expected_str' = s
    /\ op' = "set_from_chars"
    /\ UNCHANGED <<NDEBUG, accessed, before, other, b_type, b_val, ret, cmp, path, path_other,
                   r_actual, r_expected, expected, actual_str, test_i, pc>>

NextStr ==
    \/ Str
    \/ SetFromStr
    \/ SetFromChars

SpecStr == InitArith /\ [][NextStr]_vars

RECURSIVE ShiftLeftMod(_, _, _)
ShiftLeftMod(v, s, modulus) ==
    IF s <= 0 \/ v = 0 THEN v % modulus ELSE ShiftLeftMod((2 * v) % modulus, s - 1, modulus)

\* a.loshift_1el(), possibly after earlier ones; ret counts them
Loshift1El ==
    /\ op \in {"init", "loshift_1el"}
    /\ ret <= SIZE_IN_ELS(el)
    /\ el' = loshift_1el(el)
    /\ ret' = ret + 1
    /\ op' = "loshift_1el"
    /\ UNCHANGED <<NDEBUG, accessed, before, other, b_type, b_val, cmp, path, path_other, status,
                   r_actual, driverVars>>

\* a.hishift_1el(), possibly after earlier ones; ret counts them
Hishift1El ==
    /\ op \in {"init", "hishift_1el"}
    /\ ret <= SIZE_IN_ELS(el)
    /\ el' = hishift_1el(el)
    /\ ret' = ret + 1
    /\ op' = "hishift_1el"
    /\ UNCHANGED <<NDEBUG, accessed, before, other, b_type, b_val, cmp, path, path_other, status,
                   r_actual, driverVars>>

\* a.loshift_bits<WIDTH>() after the whole-limb shifts toward lower indices
LoshiftBits ==
    /\ op \in {"init", "loshift_1el"}
    /\ \E WIDTH \in 0 .. (EL_SIZE_IN_BITS - 1) : \E over \in ShiftOutcomes :
          /\ el' = loshift_bits(el, WIDTH, over)
          /\ b_val' = WIDTH
    /\ op' = "loshift_bits"
    /\ UNCHANGED <<NDEBUG, accessed, before, other, b_type, ret, cmp, path, path_other, status,
                   r_actual, driverVars>>

\* a.hishift_bits<WIDTH>() after the whole-limb shifts toward higher indices
HishiftBits ==
    /\ op \in {"init", "hishift_1el"}
    /\ \E WIDTH \in 0 .. (EL_SIZE_IN_BITS - 1) : \E over \in ShiftOutcomes :
          /\ el' = hishift_bits(el, WIDTH, over)
          /\ b_val' = WIDTH
    /\ op' = "hishift_bits"
    /\ UNCHANGED <<NDEBUG, accessed, before, other, b_type, ret, cmp, path, path_other, status,
                   r_actual, driverVars>>

NextShift ==
    \/ Loshift1El
    \/ Hishift1El
    \/ LoshiftBits
    \/ HishiftBits

SpecShift == InitArith /\ [][NextShift]_vars

\* C13: k whole-limb shifts (k = ret) followed by one sub-limb shift by s
\* (s = b_val, 0 <= s < W) toward lower indices leave floor(v / 2^(k*W + s)),
\* toward higher indices (v * 2^(k*W + s)) mod 2^N
C13_ShiftComposition ==
    /\ (op = "loshift_bits") =>
          Value(el) = ShiftRight(Value(before), ret * EL_SIZE_IN_BITS + b_val)
    /\ (op = "hishift_bits") =>
          Value(el) = ShiftLeftMod(Value(before), ret * EL_SIZE_IN_BITS + b_val, N_Modulus)

\* ------------------------------------------------------------------ the public operations, one call each

NextPublic ==
    \/ CompareUnsigned
    \/ CompareSigned
    \/ PlusEq
    \/ MinusEq
    \/ MulEq
    \/ DivEq
    \/ Mod
    \/ SetFromChars

SpecPublic == InitArith /\ [][NextPublic]_vars

\* the string handed to set_from_str holds decimal digits only
DigitsOnly == \A i \in DOMAIN expected_str : expected_str[i] \in Digits

\* C14: a public operation called within its preconditions (nonzero divisor,
\* non-negative multiplier, digit-only string), with an unsigned or a signed
\* native operand, reaches no failing assertion: every comparison returns
\* true or false, and add, subtract, multiply, divide, modulo and reading a
\* string complete
C14_NoFailingAssertion ==
    /\ (op = "compare") => AllReturned
    /\ (op \in {"pluseq", "minuseq", "diveq", "mod"}) => status = "ok"
    /\ (op = "muleq" /\ b_val >= 0) => status = "ok"
    /\ (op = "set_from_chars" /\ DigitsOnly) => status = "ok"

\* ------------------------------------------------------------------ multiply-assign with a signed operand

starting_at_el_indices(n, START_EL_IDX) == START_EL_IDX .. (n - 1)

\* set_uint: el[0] .. el[k - 1] of the branch taken, then set_zero_starting_at_el<k>
set_uint_indices(n, t) ==
    (0 .. (set_uint_els(n, t) - 1)) \cup starting_at_el_indices(n, set_uint_els(n, t))

\* as_uint: el[0] .. el[k - 1] of the branch taken
as_uint_indices(n, t) == 0 .. (as_uint_els(n, t) - 1)

\* operator_neq_uint .. operator_geq_uint: to_el_t() or as_uint<UINT_T>(), then
\* the limbs from sizeof(UINT_T) / sizeof(el_t) on
cmp_uint_indices(n, t) ==
    IF EL_SIZE_IN_BITS >= t.bits
    THEN {0} \cup starting_at_el_indices(n, 1)
    ELSE as_uint_indices(n, t) \cup starting_at_el_indices(n, ElsOf(t))

\* operator_pluseq_uint, operator_minuseq_uint: el[i] for i < B_EL_COUNT, then
\* for B_EL_COUNT <= i < SIZE_IN_ELS
pluseq_uint_indices(m, t) ==
    (0 .. (B_EL_COUNT(m, t) - 1)) \cup (B_EL_COUNT(m, t) .. (SIZE_IN_ELS(m) - 1))

\* operator_muleq_uint: el[i] for i = 0 .. SIZE_IN_ELS - 1
muleq_uint_indices(n) == 0 .. (n - 1)

\* operator/=, operator%: el[i] for i = SIZE_IN_ELS - 1 down to 0
diveq_indices(n) == {(n - 1) - j : j \in 0 .. (n - 1)}

\* loshift_bits: el[0], then el[i - 1] and el[i] for i = 1 .. SIZE_IN_ELS - 1
loshift_bits_indices(n) == {0} \cup UNION {{i - 1, i} : i \in 1 .. (n - 1)}

\* hishift_bits: el[SIZE_IN_ELS - 1], then el[i + 1] and el[i] for
\* i = SIZE_IN_ELS - 2 down to 0
hishift_bits_indices(n) == {n - 1} \cup UNION {{i + 1, i} : i \in 0 .. (n - 2)}

\* loshift_1el: el[i] = el[i + 1] for i = 0 .. SIZE_IN_ELS - 2, then
\* el[SIZE_IN_ELS - 1]
loshift_1el_indices(n) == UNION {{i, i + 1} : i \in 0 .. (n - 2)} \cup {n - 1}

\* hishift_1el: el[i] = el[i - 1] for i = SIZE_IN_ELS - 1 down to 0 (the loop
\* ends when i-- wraps around below 0), then el[0]
hishift_1el_indices(n) == UNION {{i, i - 1} : i \in 0 .. (n - 1)} \cup {0}

\* what the operations below leave alone
idxFrame == <<NDEBUG, before, other, path, path_other, r_actual, driverVars>>

\* bui<N> a(x)
IdxConstruct ==
    /\ op = "init"
    /\ \E t \in ConvTypes : \E x \in {0, 1} :
          /\ el' = bui(SIZE_IN_ELS(el), t, x)
          /\ accessed' = set_uint_indices(SIZE_IN_ELS(el), t)
          /\ b_type' = t
          /\ b_val' = x
    /\ op' = "construct"
    /\ UNCHANGED <<ret, cmp, status>>
    /\ UNCHANGED idxFrame

\* a.as<UINT_T>() with the type the magnitude was constructed from
IdxAs ==
    /\ op = "construct"
    /\ ret' = as(el, b_type)
    /\ accessed' = as_uint_indices(SIZE_IN_ELS(el), b_type)
    /\ op' = "as"
    /\ UNCHANGED <<el, b_type, b_val, cmp, status>>
    /\ UNCHANGED idxFrame

\* the six comparisons of a with b
IdxCompare ==
    /\ op = "init"
    /\ \E t \in OperandTypes : \E b \in ValuesOf(t) :
          /\ cmp' = CompareAll(el, t, b)
          /\ accessed' = cmp_uint_indices(SIZE_IN_ELS(el), make_unsigned_t(t))
          /\ b_type' = t
          /\ b_val' = b
    /\ op' = "compare"
    /\ UNCHANGED <<el, ret, status>>
    /\ UNCHANGED idxFrame

\* a += b
IdxPlusEq ==
    /\ op = "init"
    /\ \E t \in OperandTypes : \E b \in ValuesOf(t) :
          /\ el' \in operator_pluseq(el, t, b, UnsignedValues(t.bits))
          /\ accessed' = pluseq_uint_indices(el, make_unsigned_t(t))
          /\ b_type' = t
          /\ b_val' = b
    /\ op' = "pluseq"
    /\ UNCHANGED <<ret, cmp, status>>
    /\ UNCHANGED idxFrame

\* a -= b
IdxMinusEq ==
    /\ op = "init"
    /\ \E t \in OperandTypes : \E b \in ValuesOf(t) :
          /\ el' \in operator_minuseq(el, t, b, UnsignedValues(t.bits))
          /\ accessed' = pluseq_uint_indices(el, make_unsigned_t(t))
          /\ b_type' = t
          /\ b_val' = b
    /\ op' = "minuseq"
    /\ UNCHANGED <<ret, cmp, status>>
    /\ UNCHANGED idxFrame

\* a *= b for b >= 0
IdxMulEq ==
    /\ op = "init"
    /\ \E t \in OperandTypes : \E b \in {v \in ValuesOf(t) : v >= 0} :
          /\ el' = operator_muleq(el, t, b).el
          /\ status' = operator_muleq(el, t, b).status
          /\ accessed' = muleq_uint_indices(SIZE_IN_ELS(el))
          /\ b_type' = t
          /\ b_val' = b
    /\ op' = "muleq"
    /\ UNCHANGED <<ret, cmp>>
    /\ UNCHANGED idxFrame

\* a /= b for a nonzero el_t b
IdxDivEq ==
    /\ op = "init"
    /\ \E b \in ValuesOf(EL_T) \ {0} :
          /\ el' = operator_diveq(el, b).el
          /\ ret' = operator_diveq(el, b).ret
          /\ b_val' = b
    /\ accessed' = diveq_indices(SIZE_IN_ELS(el))
    /\ b_type' = EL_T
    /\ op' = "diveq"
    /\ UNCHANGED <<cmp, status>>
    /\ UNCHANGED idxFrame

\* a % b for a nonzero el_t b
IdxMod ==
    /\ op = "init"
    /\ \E b \in ValuesOf(EL_T) \ {0} :
          /\ ret' = operator_mod(el, b)
          /\ b_val' = b
    /\ accessed' = diveq_indices(SIZE_IN_ELS(el))
    /\ b_type' = EL_T
    /\ op' = "mod"
    /\ UNCHANGED <<el, cmp, status>>
    /\ UNCHANGED idxFrame

\* a.loshift_bits<WIDTH>()
IdxLoshiftBits ==
    /\ op = "init"
    /\ \E WIDTH \in 0 .. (EL_SIZE_IN_BITS - 1) : \E over \in ShiftOutcomes :
          /\ el' = loshift_bits(el, WIDTH, over)
          /\ b_val' = WIDTH
    /\ accessed' = loshift_bits_indices(SIZE_IN_ELS(el))
    /\ op' = "loshift_bits"
    /\ UNCHANGED <<b_type, ret, cmp, status>>
    /\ UNCHANGED idxFrame

\* a.hishift_bits<WIDTH>()
IdxHishiftBits ==
    /\ op = "init"
    /\ \E WIDTH \in 0 .. (EL_SIZE_IN_BITS - 1) : \E over \in ShiftOutcomes :
          /\ el' = hishift_bits(el, WIDTH, over)
          /\ b_val' = WIDTH
    /\ accessed' = hishift_bits_indices(SIZE_IN_ELS(el))
    /\ op' = "hishift_bits"
    /\ UNCHANGED <<b_type, ret, cmp, status>>
    /\ UNCHANGED idxFrame

\* a.loshift_1el()
IdxLoshift1El ==
    /\ op \in {"init", "loshift_1el"}
    /\ ret < SIZE_IN_ELS(el)
    /\ el' = loshift_1el(el)
    /\ ret' = ret + 1
    /\ accessed' = loshift_1el_indices(SIZE_IN_ELS(el))
    /\ op' = "loshift_1el"
    /\ UNCHANGED <<b_type, b_val, cmp, status>>
    /\ UNCHANGED idxFrame

\* a.hishift_1el()
IdxHishift1El ==
    /\ op \in {"init", "hishift_1el"}
    /\ ret < SIZE_IN_ELS(el)
    /\ el' = hishift_1el(el)
    /\ ret' = ret + 1
    /\ accessed' = hishift_1el_indices(SIZE_IN_ELS(el))
    /\ op' = "hishift_1el"
    /\ UNCHANGED <<b_type, b_val, cmp, status>>
    /\ UNCHANGED idxFrame

NextIdx ==
    \/ IdxConstruct
    \/ IdxAs
    \/ IdxCompare
    \/ IdxPlusEq
    \/ IdxMinusEq
    \/ IdxMulEq
    \/ IdxDivEq
    \/ IdxMod
    \/ IdxLoshiftBits
    \/ IdxHishiftBits
    \/ IdxLoshift1El
    \/ IdxHishift1El

SpecIdx == InitConv /\ [][NextIdx]_vars

\* C16: every limb read and every limb write of an operation (arithmetic,
\* comparison, conversion, sub-limb and whole-limb shifts, any limb count)
\* uses an index i with 0 <= i < SIZE_IN_ELS
C16_IndexSafety ==
    \A i \in accessed : 0 <= i /\ i < SIZE_IN_ELS(el)

\* ------------------------------------------------------------------ bitwise AND with a native operand

\* x & y on non-negative words
RECURSIVE BitAnd(_, _)
BitAnd(x, y) ==
    IF x = 0 \/ y = 0 THEN 0
    ELSE (IF (x % 2) + (y % 2) = 2 THEN 1 ELSE 0) + 2 * BitAnd(x \div 2, y \div 2)

\* bui::to_tw_t
to_tw_t(m) ==
    IF SIZE_IN_ELS(m) = 1 THEN m[0]
    ELSE BitOr(m[0], (m[1] * Pow2(EL_SIZE_IN_BITS)) % TW_BASE)

\* el_t bui::operator&(const el_t &b)
operator_and_el_t(m, b) == BitAnd(m[0], b)

\* el_t bui::operator&(const tw_t &b): tw & b, converted to the return type el_t
operator_and_tw_t(m, b) == BitAnd(to_tw_t(m), b) % BASE

\* el_t bui::operator&(const int &b): ((el_t) *this) & (el_t) b
operator_and_int(m, b) == BitAnd(to_el_t(m), CastUnsigned(EL_T, b))

\* a & b for an el_t b
AndEl ==
    /\ op = "init"
    /\ \E b \in ValuesOf(EL_T) :
          /\ ret' = operator_and_el_t(el, b)
          /\ b_val' = b
    /\ b_type' = EL_T
    /\ op' = "and_el_t"
    /\ UNCHANGED <<NDEBUG, accessed, el, before, other, cmp, path, path_other, status,
                   r_actual, driverVars>>

\* a & b for a tw_t b
AndTw ==
    /\ op = "init"
    /\ \E b \in ValuesOf(TW_T) :
          /\ ret' = operator_and_tw_t(el, b)
          /\ b_val' = b
    /\ b_type' = TW_T
    /\ op' = "and_tw_t"
    /\ UNCHANGED <<NDEBUG, accessed, el, before, other, cmp, path, path_other, status,
                   r_actual, driverVars>>

\* a & b for an int b
AndInt ==
    /\ op = "init"
    /\ \E b \in ValuesOf(INT_T) :
          /\ ret' = operator_and_int(el, b)
          /\ b_val' = b
    /\ b_type' = INT_T
    /\ op' = "and_int"
    /\ UNCHANGED <<NDEBUG, accessed, el, before, other, cmp, path, path_other, status,
                   r_actual, driverVars>>

NextAnd ==
    \/ AndEl
    \/ AndTw
    \/ AndInt

SpecAnd == InitArith /\ [][NextAnd]_vars

\* C17: a & b with a double-limb operand b returns (a mod 2^(2W)) AND b, its
\* bits at positions W .. 2W-1 included; with a limb-width operand it returns
\* (a mod 2^W) AND b; the magnitude is unchanged
C17_BitwiseAnd ==
    /\ (op = "and_tw_t") => (ret = BitAnd(Value(el) % TW_BASE, b_val) /\ el = before)
    /\ (op = "and_el_t") => (ret = BitAnd(Value(el) % BASE, b_val) /\ el = before)

\* ------------------------------------------------------------------ the scratch registers of multiply, divide, modulo

\* operator_muleq_uint, sizeof(UINT_T) == sizeof(el_t): whether in every step
\* tw + ((tw_t) el[i]) * b is a tw_t value
RECURSIVE muleq_el_fits(_, _, _, _)
muleq_el_fits(m, tw, i, b) ==
    IF i >= SIZE_IN_ELS(m) THEN TRUE
    ELSE LET raw == tw + m[i] * b
             tw1 == raw % TW_BASE
         IN /\ raw < TW_BASE
            /\ muleq_el_fits([m EXCEPT ![i] = tw1 % BASE], tw1 \div BASE, i + 1, b)

\* operator_muleq_uint, sizeof(UINT_T) > sizeof(el_t): whether in every step
\* tw + ((tw_t) b_0) * el[i] and tw + (el_t) ui are tw_t values and
\* ui + b_upper * el[i] is a UINT_T value
RECURSIVE muleq_wide_fits(_, _, _, _, _, _, _)
muleq_wide_fits(m, tw, ui, i, b_0, b_upper, bits) ==
    IF i >= SIZE_IN_ELS(m) THEN TRUE
    ELSE LET raw1 == tw + b_0 * m[i]
             tw1 == raw1 % TW_BASE
             el1 == [m EXCEPT ![i] = tw1 % BASE]
             tw2 == tw1 \div BASE
             rawu == ui + b_upper * el1[i]
             ui1 == rawu % Pow2(bits)
             raw3 == tw2 + (ui1 % BASE)
         IN /\ raw1 < TW_BASE
            /\ rawu < Pow2(bits)
            /\ raw3 < TW_BASE
            /\ muleq_wide_fits(el1, raw3 % TW_BASE, ui1 \div BASE, i + 1, b_0, b_upper, bits)

\* operator_muleq_uint<UINT_T>: whether its scratch registers hold every value
operator_muleq_uint_fits(m, t, b) ==
    LET u == WidenToEl(t)
    IN IF u.bits = EL_SIZE_IN_BITS
       THEN muleq_el_fits(m, 0, 0, b)
       ELSE muleq_wide_fits(m, 0, 0, 0, b % BASE, b \div BASE, u.bits)

\* a division loop that does not reduce the remainder register
RECURSIVE diveq_fits_no_mod(_, _, _, _)
diveq_fits_no_mod(m, tw, i, b) ==
    IF i < 0 THEN TRUE
    ELSE LET raw == tw * BASE + m[i]
         IN /\ tw < b
            /\ raw < TW_BASE
            /\ raw \div b < BASE
            /\ diveq_fits_no_mod(m, raw % TW_BASE, i - 1, b)

\* operator/= and operator%, the loop: whether in every step the remainder
\* carried in tw is below b, (tw << EL_SIZE_IN_BITS) | el[i] is a tw_t value and
\* tw / b is an el_t value
RECURSIVE diveq_fits(_, _, _, _)
diveq_fits(m, tw, i, b) ==
    IF i < 0 THEN TRUE
    ELSE LET raw == tw * BASE + m[i]
         IN /\ tw < b
            /\ raw < TW_BASE
            /\ raw \div b < BASE
            /\ diveq_fits(m, raw % b, i - 1, b)

\* the outcome recorded for the scratch registers
Scratch(fits) == IF fits THEN "ok" ELSE "overflow"

\* a *= b for an unsigned b of any of the widths
ScratchMulEq ==
    /\ op = "init"
    /\ \E t \in UnsignedTypes : \E b \in ValuesOf(t) :
          /\ el' = operator_muleq_uint(el, t, b)
          /\ status' = Scratch(operator_muleq_uint_fits(el, t, b))
          /\ b_type' = t
          /\ b_val' = b
    /\ op' = "muleq"
    /\ UNCHANGED <<NDEBUG, accessed, before, other, ret, cmp, path, path_other,
                   r_actual, driverVars>>

\* a /= b for a nonzero el_t b
ScratchDivEq ==
    /\ op = "init"
    /\ \E b \in ValuesOf(EL_T) \ {0} :
          /\ el' = operator_diveq(el, b).el
          /\ ret' = operator_diveq(el, b).ret
          /\ status' = Scratch(diveq_fits(el, 0, SIZE_IN_ELS(el) - 1, b))
          /\ b_val' = b
    /\ b_type' = EL_T
    /\ op' = "diveq"
    /\ UNCHANGED <<NDEBUG, accessed, before, other, cmp, path, path_other,
                   r_actual, driverVars>>

\* a % b for a nonzero el_t b
ScratchMod ==
    /\ op = "init"
    /\ \E b \in ValuesOf(EL_T) \ {0} :
          /\ ret' = operator_mod(el, b)
          /\ status' = Scratch(diveq_fits(el, 0, SIZE_IN_ELS(el) - 1, b))
          /\ b_val' = b
    /\ b_type' = EL_T
    /\ op' = "mod"
    /\ UNCHANGED <<NDEBUG, accessed, el, before, other, cmp, path, path_other,
                   r_actual, driverVars>>

NextScratch ==
    \/ ScratchMulEq
    \/ ScratchDivEq
    \/ ScratchMod

SpecScratch == InitArith /\ [][NextScratch]_vars

\* C18: in every loop step of multiply-assign (limb-width and double-limb
\* operand) the value accumulated into tw and ui is below 2^(register width),
\* and in every loop step of divide-assign and modulo the remainder carried in
\* is below b and the per-limb quotient is below 2^W
C18_ScratchRegistersFit ==
    (op \in {"muleq", "diveq", "mod"}) => status = "ok"

\* the largest double-limb operand times the magnitude with all limbs set
C18_Witness ==
    /\ op = "muleq"
    /\ b_type = TW_T
    /\ b_val = TW_BASE - 1
    /\ SIZE_IN_ELS(before) = MaxEls
    /\ \A i \in DOMAIN before : before[i] = BASE - 1
    /\ status = "ok"

====
